---------------------------- MODULE Spec2Model ----------------------------
(***************************************************************************)
(* Model of vhost-generator.py: the provisioning pipeline main() runs for  *)
(* one customer (check_version, download_from_s3, create_vhost, create_db, *)
(* deploy_app, create_dns_record), together with the external systems it  *)
(* talks to (S3 bucket, Elastic Beanstalk, RDS, Route 53) and the scratch  *)
(* directory /tmp it leaves its files in.                                  *)
(*                                                                         *)
(* Text is modelled as a sequence of one-character strings, so that the    *)
(* string operations of the code (format, re.search, strip, splitext) are  *)
(* computed and not assumed.                                               *)
(***************************************************************************)
EXTENDS Integers, Sequences, FiniteSets, TLC

(***************************************************************************)
(* Bounds of the model.                                                    *)
(***************************************************************************)
\* number of invocations of main() in one behaviour
MaxRuns == 2
\* the wall clock advances at most this many seconds
MaxClock == 1

(***************************************************************************)
(* Text helpers.                                                           *)
(***************************************************************************)
\* Python's None, where the code holds a string or None
None == <<>>

\* '{}'.format(x): None is rendered as the text "None"
Format(x) == IF x = None THEN <<"N", "o", "n", "e">> ELSE x

Range(s) == {s[i] : i \in 1..Len(s)}

Last(s) == s[Len(s)]

IsPrefix(s, t) == Len(s) <= Len(t) /\ SubSeq(t, 1, Len(s)) = s

\* characters of the keys, labels and names in the order of their code
\* points, which is the order S3 lists keys in
AsciiOrder ==
    <<"-", ".", "0", "1", "2", "3", "4", "5", "6", "7", "8", "9",
      "N", "a", "b", "c", "d", "e", "i", "k", "n", "o", "p", "v", "w", "z">>

Ord(ch) == CHOOSE i \in 1..Len(AsciiOrder) : AsciiOrder[i] = ch

\* s < t, byte-wise
RECURSIVE KeyLess(_, _)
KeyLess(s, t) ==
    IF t = <<>> THEN FALSE
    ELSE IF s = <<>> THEN TRUE
    ELSE IF Head(s) = Head(t) THEN KeyLess(Tail(s), Tail(t))
    ELSE Ord(Head(s)) < Ord(Head(t))

\* the keys of a bucket in listing order
RECURSIVE SortKeys(_)
SortKeys(S) ==
    IF S = {} THEN <<>>
    ELSE LET m == CHOOSE k \in S : \A j \in S \ {k} : KeyLess(k, j)
         IN  <<m>> \o SortKeys(S \ {m})

\* str.strip(): leading and trailing whitespace removed
Whitespace == {" ", "\n", "\t", "\r"}

RECURSIVE LStrip(_)
LStrip(s) ==
    IF s # <<>> /\ Head(s) \in Whitespace THEN LStrip(Tail(s)) ELSE s

RECURSIVE RStrip(_)
RStrip(s) ==
    IF s # <<>> /\ Last(s) \in Whitespace
    THEN RStrip(SubSeq(s, 1, Len(s) - 1)) ELSE s

Strip(s) == RStrip(LStrip(s))

\* one character of a pattern against one character of the text: "." is the
\* regular expression wildcard (anything but a newline), the other
\* characters of the alphabet stand for themselves
CharMatches(pc_, ch) == IF pc_ = "." THEN ch # "\n" ELSE pc_ = ch

\* the pattern matches the text starting at position i
MatchesAt(pattern, text, i) ==
    /\ i + Len(pattern) - 1 <= Len(text)
    /\ \A j \in 1..Len(pattern) : CharMatches(pattern[j], text[i + j - 1])

\* re.search(pattern, text) finds a match
ReSearch(pattern, text) ==
    \E i \in 1..(Len(text) + 1) : MatchesAt(pattern, text, i)

\* s occurs in t as a substring
Contains(s, t) ==
    \E i \in 1..(Len(t) + 1) :
        /\ i + Len(s) - 1 <= Len(t)
        /\ SubSeq(t, i, i + Len(s) - 1) = s

EndsWith(t, s) ==
    Len(s) <= Len(t) /\ SubSeq(t, Len(t) - Len(s) + 1, Len(t)) = s

\* the last position of ch in s, 0 when there is none (str.rfind, 1-based)
RFind(s, ch) ==
    IF \E i \in 1..Len(s) : s[i] = ch
    THEN CHOOSE i \in 1..Len(s) :
            s[i] = ch /\ \A j \in (i + 1)..Len(s) : s[j] # ch
    ELSE 0

\* os.path.splitext(p)[0]: p without the extension of its last component;
\* leading dots of the component are no extension
SplitExtRoot(p) ==
    LET sep == RFind(p, "/")
        dot == RFind(p, ".")
    IN  IF dot > sep /\ \E i \in (sep + 1)..(dot - 1) : p[i] # "."
        THEN SubSeq(p, 1, dot - 1)
        ELSE p

\* '{:0wd}'.format(n) for 0 <= n
Digits == <<"0", "1", "2", "3", "4", "5", "6", "7", "8", "9">>

RECURSIVE Decimal(_)
Decimal(n) ==
    IF n < 10 THEN <<Digits[n + 1]>>
    ELSE Decimal(n \div 10) \o <<Digits[(n % 10) + 1]>>

RECURSIVE ZeroPad(_, _)
ZeroPad(s, w) == IF Len(s) >= w THEN s ELSE ZeroPad(<<"0">> \o s, w)

Pad(n, w) == ZeroPad(Decimal(n), w)


(***************************************************************************)
(* Configuration imported from variables.py and the module globals.        *)
(***************************************************************************)
domain == <<"e", ".", "c">>
app_name == "app"
env_id == "e-1"
env_name == "env"
bucket == "bucket"
hosted_zone_id == "zone"
eb_url == "eb.url"
rds_hostname == "rds.host"
rds_username == "rds_user"
rds_password == "rds_pw"
rds_port == "3306"
dst_path == <<"/", "t", "m", "p">>

\* a customer that is no identifier: a line break and a line of Apache
\* configuration follow its first character
BadCustomer == <<"a", "\n", "<VirtualHost *:80>">>

\* the values event['params']['path']['customer'] takes
Customers == {<<"a">>, <<"b">>, BadCustomer}

(***************************************************************************)
(* Objects of the bucket.  The body of an object says whether it is a      *)
(* readable zip archive, whether the archived tree has the directory       *)
(* .ebextensions/vhosts, and which vhost config files that directory holds.*)
(***************************************************************************)
GoodBundle == [zip |-> TRUE, vhosts |-> TRUE, confs |-> {}]
NoVhostsBundle == [zip |-> TRUE, vhosts |-> FALSE, confs |-> {}]
NotAZip == [zip |-> FALSE, vhosts |-> FALSE, confs |-> {}]

EmptyFcn == [x \in {} |-> NotAZip]

\* f with x mapped to v, whether or not x was in its domain
Put(f, x, v) == [y \in (DOMAIN f) \cup {x} |-> IF y = x THEN v ELSE f[y]]

\* f without x
Drop(f, x) == [y \in (DOMAIN f) \ {x} |-> f[y]]

V1Zip == <<"v", "1", ".", "z", "i", "p">>
V2Zip == <<"v", "2", ".", "z", "i", "p">>
V2ZipBak == <<"a", "v", "2", ".", "z", "i", "p", ".", "b">>

\* the bucket before the first run, and the version the environment runs
InitialStores ==
    { Put(Put(EmptyFcn, V1Zip, GoodBundle), V2Zip, GoodBundle),
      Put(EmptyFcn, V1Zip, NotAZip),
      Put(Put(EmptyFcn, V2ZipBak, NoVhostsBundle), V2Zip, GoodBundle) }

InitialLabels == { <<"v", "1">>, <<"v", "2">> }

VARIABLES
    \* external systems
    bucket_objs,      \* S3: key -> body
    app_versions,     \* EB: version label -> [status, key]
    env_version,      \* EB: label the environment was last updated to
    live_version,     \* EB: label the instances report as deployed
    databases,        \* RDS: names of the databases
    grants,           \* RDS: databases rds_username was granted
    dns_records,      \* Route 53: name -> record
    clock,            \* the wall clock, in seconds
    \* scratch directory
    object_list,      \* /tmp/object_list.txt: [exists, lines]
    tmp,              \* the other entries of /tmp: path -> [type, body]
    \* the run of main()
    pc,               \* the stage main() is about to enter
    step,             \* the position inside deploy_app
    runs,             \* invocations of main() so far
    customer, customer_url, key, extraction_path,
    new_app_version, app_status, output,
    \* history of the run
    trace,            \* stages entered, in order
    failedAt,         \* the stage that called sys.exit(1)
    listed,           \* what s3_bucket.objects.all() returned in this run
    current_version,  \* the label describe_instances_health returned
    pubSteps,         \* external calls of deploy_app, repeats of a call merged
    dnsLog            \* the changes submitted to Route 53 in this run

external == <<bucket_objs, app_versions, env_version, live_version,
              databases, grants, dns_records, clock>>
scratch == <<object_list, tmp>>
locals == <<customer, customer_url, key, extraction_path,
            new_app_version, app_status, output>>
history == <<trace, failedAt, listed, current_version, pubSteps, dnsLog>>
vars == <<external, scratch, pc, step, runs, locals, history>>

NoFile == [exists |-> FALSE, lines |-> <<>>]

Init ==
    /\ bucket_objs \in InitialStores
    /\ app_versions = EmptyFcn
    /\ env_version \in InitialLabels
    /\ live_version = env_version
    /\ databases = {}
    /\ grants = {}
    /\ dns_records = EmptyFcn
    /\ clock = 0
    /\ object_list = NoFile
    /\ tmp = EmptyFcn
    /\ pc = "idle"
    /\ step = ""
    /\ runs = 0
    /\ customer = None
    /\ customer_url = None
    /\ key = None
    /\ extraction_path = None
    /\ new_app_version = None
    /\ app_status = ""
    /\ output = <<>>
    /\ trace = <<>>
    /\ failedAt = ""
    /\ listed = <<>>
    /\ current_version = None
    /\ pubSteps = <<>>
    /\ dnsLog = <<>>

(***************************************************************************)
(* main(): the order of the calls, and what an error in a call does.       *)
(***************************************************************************)
\* the mutant enters deploy_app right after create_vhost
SuccessorSkipDb(stage) ==
    CASE stage = "LocateArtifact" -> "Fetch"
      [] stage = "Fetch" -> "WriteConfig"
      [] stage = "WriteConfig" -> "Publish"
      [] stage = "ProvisionDatabase" -> "Publish"
      [] stage = "Publish" -> "RegisterDns"
      [] stage = "RegisterDns" -> "Done"

\* the statement of main() that follows the return of a stage
Successor(stage) ==
    CASE stage = "LocateArtifact" -> "Fetch"
      [] stage = "Fetch" -> "WriteConfig"
      [] stage = "WriteConfig" -> "ProvisionDatabase"
      [] stage = "ProvisionDatabase" -> "Publish"
      [] stage = "Publish" -> "RegisterDns"
      [] stage = "RegisterDns" -> "Done"

\* the mutant of deploy_app logs the error and returns, as create_db does
SysExitPublishReturns(stage) ==
    /\ pc' = IF stage = "Publish" THEN Successor(stage) ELSE "failed"
    /\ failedAt' = stage

\* the mutant of create_dns_record logs the error and returns
SysExitDnsReturns(stage) ==
    /\ pc' = IF stage = "RegisterDns" THEN Successor(stage) ELSE "failed"
    /\ failedAt' = stage

\* except Exception: logger.error(...); sys.exit(1)
SysExit(stage) ==
    /\ pc' = "failed"
    /\ failedAt' = stage

\* main() is invoked with a customer; lines 302-303
StartRun(c) ==
    /\ pc \in {"idle", "Returned", "failed"}
    /\ runs < MaxRuns
    /\ runs' = runs + 1
    /\ customer' = c
    /\ customer_url' = c \o <<".">> \o domain
    /\ pc' = "LocateArtifact"
    /\ step' = ""
    /\ key' = None
    /\ extraction_path' = None
    /\ new_app_version' = None
    /\ app_status' = ""
    /\ output' = <<>>
    /\ trace' = <<>>
    /\ failedAt' = ""
    /\ listed' = <<>>
    /\ current_version' = None
    /\ pubSteps' = <<>>
    /\ dnsLog' = <<>>
    /\ UNCHANGED <<external, scratch>>

(***************************************************************************)
(* check_version()                                                         *)
(***************************************************************************)
DotZip == <<".", "z", "i", "p">>

\* fh.write('{0}\n'.format(obj.key)) for every object of the listing
RECURSIVE IndexLines(_)
IndexLines(keys) ==
    IF keys = <<>> THEN <<>>
    ELSE <<Head(keys) \o <<"\n">>>> \o IndexLines(Tail(keys))

\* re.search('{0}.zip'.format(current_version), key)
LineMatches(version, line) == ReSearch(version \o DotZip, line)

\* for key in fh: if re.search(...): return key.strip(); falling off the
\* end of the function returns None
RECURSIVE FirstMatch(_, _)
FirstMatch(lines, version) ==
    IF lines = <<>> THEN None
    ELSE IF LineMatches(version, Head(lines)) THEN Strip(Head(lines))
    ELSE FirstMatch(Tail(lines), version)

\* with open(object_list, 'a'): the file is created when absent and is
\* written after what it holds
AppendLines(file, lines) == [exists |-> TRUE, lines |-> file.lines \o lines]

CheckVersion ==
    /\ pc = "LocateArtifact"
    /\ trace' = Append(trace, "LocateArtifact")
    /\ \/ \* describe_instances_health raises, or reports no instance
          /\ SysExit("LocateArtifact")
          /\ UNCHANGED <<object_list, key, listed, current_version>>
       \/ \* the listing of the bucket raises, the index file being open
          /\ current_version' = live_version
          /\ object_list' = AppendLines(object_list, <<>>)
          /\ SysExit("LocateArtifact")
          /\ UNCHANGED <<key, listed>>
       \/ /\ current_version' = live_version
          /\ listed' = SortKeys(DOMAIN bucket_objs)
          /\ object_list' = AppendLines(object_list, IndexLines(listed'))
          /\ key' = FirstMatch(object_list'.lines, current_version')
          /\ pc' = Successor("LocateArtifact")
          /\ UNCHANGED failedAt
    /\ UNCHANGED <<external, tmp, step, runs, customer, customer_url,
                   extraction_path, new_app_version, app_status, output,
                   pubSteps, dnsLog>>

(***************************************************************************)
(* download_from_s3(key)                                                   *)
(***************************************************************************)
Slash == <<"/">>

FilePath(k) == dst_path \o Slash \o Format(k)

ExtractionPath(k) == SplitExtRoot(FilePath(k))

File(body) == [type |-> "file", body |-> body]

\* a directory holding the tree of an archive
Dir(body) == [type |-> "dir",
              body |-> [zip |-> FALSE, vhosts |-> body.vhosts,
                        confs |-> body.confs]]

EmptyDir == [type |-> "dir",
             body |-> [zip |-> FALSE, vhosts |-> FALSE, confs |-> {}]]

\* download_file can write its destination
Downloadable(k) ==
    /\ k \in DOMAIN bucket_objs
    /\ FilePath(k) \in DOMAIN tmp => tmp[FilePath(k)].type = "file"

\* os.makedirs(path, exist_ok=True): an existing directory is accepted
MakedirsExistOk(t, path) == path \in DOMAIN t /\ t[path].type # "dir"

\* os.makedirs(path) raises FileExistsError when the path exists
MakedirsRaises(t, path) == path \in DOMAIN t

DownloadFromS3 ==
    /\ pc = "Fetch"
    /\ trace' = Append(trace, "Fetch")
    /\ \/ \* download_file raises: no such key (None is no key), or S3 fails
          /\ SysExit("Fetch")
          /\ UNCHANGED <<tmp, extraction_path>>
       \/ /\ Downloadable(key)
          /\ LET body == bucket_objs[key]
                 got == Put(tmp, FilePath(key), File(body))
                 dir == ExtractionPath(key)
             IN  \/ \* os.makedirs: the path exists
                    /\ MakedirsRaises(got, dir)
                    /\ tmp' = got
                    /\ SysExit("Fetch")
                    /\ UNCHANGED extraction_path
                 \/ \* zipfile.ZipFile: not a zip file
                    /\ ~MakedirsRaises(got, dir)
                    /\ ~body.zip
                    /\ tmp' = Put(got, dir, EmptyDir)
                    /\ SysExit("Fetch")
                    /\ UNCHANGED extraction_path
                 \/ /\ ~MakedirsRaises(got, dir)
                    /\ body.zip
                    /\ tmp' = Put(got, dir, Dir(body))
                    /\ extraction_path' = dir
                    /\ pc' = Successor("Fetch")
                    /\ UNCHANGED failedAt
    /\ UNCHANGED <<external, object_list, step, runs, customer, customer_url,
                   key, new_app_version, app_status, output,
                   listed, current_version, pubSteps, dnsLog>>

(***************************************************************************)
(* create_vhost(customer, extraction_path)                                 *)
(***************************************************************************)
\* the template of create_vhost after format(): lines of the file, the
\* places of {0}..{5} filled in
VhostOpen == "<VirtualHost *:80>"
VhostClose == "</VirtualHost>"
Indent == "    "
Quoted(s) == <<"\"">> \o s \o <<"\"">>
VhostLine(directive, value) == <<Indent, directive>> \o value \o <<"\n">>
VhostText(c) ==
    <<VhostOpen, "\n">>
    \o VhostLine("ServerName ", c \o <<".">> \o domain)
    \o VhostLine("ServerAlias ", <<"w", "w", "w", ".">> \o c \o <<".">> \o domain)
    \o VhostLine("DocumentRoot ", <<"/var/www/clients/">> \o c)
    \o <<"\n">>
    \o VhostLine("SetEnv RDS_HOSTNAME ", Quoted(<<rds_hostname>>))
    \o VhostLine("SetEnv RDS_DB_NAME ", Quoted(c))
    \o VhostLine("SetEnv RDS_USERNAME ", Quoted(<<rds_username>>))
    \o VhostLine("SetEnv RDS_PASSWORD ", Quoted(<<rds_password>>))
    \o VhostLine("SetEnv RDS_PORT ", Quoted(<<rds_port>>))
    \o <<VhostClose, "\n">>

\* the file <customer>.conf and its text
VhostConf(c) ==
    [ file |-> c \o <<".", "c", "o", "n", "f">>,
      text |-> VhostText(c) ]

\* open(path, 'w') and write: a file of that name is replaced
WriteConf(confs, conf) == {f \in confs : f.file # conf.file} \cup {conf}

CreateVhost ==
    /\ pc = "WriteConfig"
    /\ trace' = Append(trace, "WriteConfig")
    /\ LET tree == tmp[extraction_path].body
       IN  \/ \* open(): the directory .ebextensions/vhosts is missing
              /\ ~tree.vhosts
              /\ SysExit("WriteConfig")
              /\ UNCHANGED tmp
           \/ /\ tree.vhosts
              /\ tmp' = [tmp EXCEPT ![extraction_path].body.confs =
                            WriteConf(@, VhostConf(customer))]
              /\ pc' = Successor("WriteConfig")
              /\ UNCHANGED failedAt
    /\ UNCHANGED <<external, object_list, step, runs, locals,
                   listed, current_version, pubSteps, dnsLog>>

(***************************************************************************)
(* create_db(customer)                                                     *)
(***************************************************************************)
\* the characters of a name MySQL takes unquoted in CREATE DATABASE <name>
SqlNameChars == (Range(AsciiOrder) \ {"-", "."}) \cup {"_", "$"}

\* 'CREATE DATABASE {}'.format(db_name) is a statement MySQL can parse
SqlParses(db_name) ==
    db_name # <<>> /\ \A i \in 1..Len(db_name) : db_name[i] \in SqlNameChars

CreateDb ==
    /\ pc = "ProvisionDatabase"
    /\ trace' = Append(trace, "ProvisionDatabase")
    /\ LET db_name == customer
       IN  \/ \* pymysql.connect raises, outside the try: main() exits
              /\ SysExit("ProvisionDatabase")
              /\ UNCHANGED <<databases, grants>>
           \/ \* CREATE DATABASE raises (the database exists, or the server
              \* refuses): logged, rolled back, the function returns
              /\ pc' = Successor("ProvisionDatabase")
              /\ UNCHANGED <<databases, grants, failedAt>>
           \/ \* CREATE DATABASE succeeds, GRANT raises: the same
              /\ SqlParses(db_name)
              /\ db_name \notin databases
              /\ databases' = databases \cup {db_name}
              /\ pc' = Successor("ProvisionDatabase")
              /\ UNCHANGED <<grants, failedAt>>
           \/ /\ SqlParses(db_name)
              /\ db_name \notin databases
              /\ databases' = databases \cup {db_name}
              /\ grants' = grants \cup {db_name}
              /\ pc' = Successor("ProvisionDatabase")
              /\ UNCHANGED failedAt
    /\ UNCHANGED <<bucket_objs, app_versions, env_version, live_version,
                   dns_records, clock, scratch, step, runs, locals,
                   listed, current_version, pubSteps, dnsLog>>

(***************************************************************************)
(* clean_up(extraction_path)                                               *)
(***************************************************************************)
\* os.unlink(object_list) raises when the file is absent, and the bare
\* except then skips shutil.rmtree
CleanUpList(file) == NoFile

CleanUpTmp(file, t, path) ==
    IF file.exists /\ path \in DOMAIN t /\ t[path].type = "dir"
    THEN Drop(t, path)
    ELSE t

(***************************************************************************)
(* deploy_app(dir_name)                                                    *)
(***************************************************************************)
\* datetime.now() at second granularity; the model's clock starts at
\* 2024-01-01 00:00:00
Now == [year |-> 2024, month |-> 1, day |-> 1,
        hour |-> 0, minute |-> 0, second |-> clock]

\* '{:04d}{:02d}{:02d}-{:02d}{:02d}{:02d}'.format(...)
DateOf(now) ==
    Pad(now.year, 4) \o Pad(now.month, 2) \o Pad(now.day, 2) \o <<"-">>
    \o Pad(now.hour, 2) \o Pad(now.minute, 2) \o Pad(now.second, 2)

\* new_app_version = '{0}-{1}'.format(domain, date)
NewAppVersion(now) == domain \o <<"-">> \o DateOf(now)

\* the mutant stores every bundle under one key
BundleKeyOfDomain(label) == domain \o DotZip

\* '{0}.zip'.format(new_app_version)
BundleKey(label) == label \o DotZip

\* shutil.make_archive of a directory
Archive(entry) ==
    [zip |-> TRUE, vhosts |-> entry.body.vhosts, confs |-> entry.body.confs]

\* the mutant leaves the loop on any status that is not PROCESSING
PollDoneNotProcessing(status) == status # "PROCESSING"

\* the mutant never leaves the loop
PollDoneNever(status) == FALSE

\* if status == app_status: break
PollDone(status) == status = "PROCESSED"

\* one more call of deploy_app; a call repeated in a row is kept once
Called(log, call) ==
    IF log # <<>> /\ Last(log) = call THEN log ELSE Append(log, call)

\* lines 168-191: the label, the archive, the upload
DeployUpload ==
    /\ pc = "Publish"
    /\ step = ""
    /\ trace' = Append(trace, "Publish")
    /\ new_app_version' = NewAppVersion(Now)
    /\ LET zipkey == BundleKey(new_app_version')
           output_file == dst_path \o Slash \o zipkey
           bundle == Archive(tmp[extraction_path])
       IN  /\ tmp' = Put(tmp, output_file, File(bundle))
           /\ pubSteps' = Called(pubSteps, "upload")
           /\ \/ \* upload_file raises
                 /\ SysExit("Publish")
                 /\ UNCHANGED <<bucket_objs, step>>
              \/ /\ bucket_objs' = Put(bucket_objs, zipkey, bundle)
                 /\ step' = "register"
                 /\ UNCHANGED <<pc, failedAt>>
    /\ UNCHANGED <<app_versions, env_version, live_version, databases,
                   grants, dns_records, clock, object_list, runs,
                   customer, customer_url, key, extraction_path, app_status,
                   output, listed, current_version, dnsLog>>

\* lines 193-203: create_application_version
DeployRegister ==
    /\ pc = "Publish"
    /\ step = "register"
    /\ pubSteps' = Called(pubSteps, "register")
    /\ \/ \* the call raises: the label is registered already, or EB fails
          /\ SysExit("Publish")
          /\ UNCHANGED <<app_versions, step>>
       \/ /\ new_app_version \notin DOMAIN app_versions
          /\ app_versions' =
                Put(app_versions, new_app_version,
                    [status |-> "PROCESSING",
                     key |-> BundleKey(new_app_version)])
          /\ step' = "poll"
          /\ UNCHANGED <<pc, failedAt>>
    /\ UNCHANGED <<bucket_objs, env_version, live_version, databases, grants,
                   dns_records, clock, scratch, runs, locals, trace,
                   listed, current_version, dnsLog>>

\* lines 206-217: one round of the loop, in which the call raises
DeployPollRaises ==
    /\ pc = "Publish"
    /\ step = "poll"
    /\ pubSteps' = Called(pubSteps, "poll")
    /\ SysExit("Publish")
    /\ UNCHANGED <<external, scratch, step, runs, locals, trace,
                   listed, current_version, dnsLog>>

\* lines 206-217: one round of the loop, in which the call returns
DeployPollReturns ==
    /\ pc = "Publish"
    /\ step = "poll"
    /\ pubSteps' = Called(pubSteps, "poll")
    /\ app_status' = app_versions[new_app_version].status
    /\ step' = IF PollDone(app_status') THEN "activate" ELSE "poll"
    /\ UNCHANGED <<external, scratch, pc, runs, customer, customer_url, key,
                   extraction_path, new_app_version, output, trace,
                   failedAt, listed, current_version, dnsLog>>

DeployPoll == DeployPollRaises \/ DeployPollReturns

\* lines 219-228: update_environment, clean_up, return
DeployActivate ==
    /\ pc = "Publish"
    /\ step = "activate"
    /\ pubSteps' = Called(pubSteps, "activate")
    /\ \/ \* update_environment raises
          /\ SysExit("Publish")
          /\ UNCHANGED <<env_version, scratch, step>>
       \/ /\ env_version' = new_app_version
          /\ object_list' = CleanUpList(object_list)
          /\ tmp' = CleanUpTmp(object_list, tmp, extraction_path)
          /\ step' = ""
          /\ pc' = Successor("Publish")
          /\ UNCHANGED failedAt
    /\ UNCHANGED <<bucket_objs, app_versions, live_version, databases,
                   grants, dns_records, clock, runs, locals, trace,
                   listed, current_version, dnsLog>>

(***************************************************************************)
(* create_dns_record(customer_url)                                         *)
(***************************************************************************)
ttl == 300

CnameRecord(name) ==
    [Name |-> name, Type |-> "CNAME", TTL |-> ttl, Value |-> eb_url]

\* the mutant submits the change as an UPSERT
DnsChangeUpsert(name) ==
    [Action |-> "UPSERT", ResourceRecordSet |-> CnameRecord(name)]

\* the one change of the ChangeBatch
DnsChange(name) ==
    [Action |-> "CREATE", ResourceRecordSet |-> CnameRecord(name)]

\* Route 53 takes the change: a CREATE of a name that has a record is
\* refused, an UPSERT is not
ChangeAccepted(records, change) ==
    \/ change.Action = "UPSERT"
    \/ /\ change.Action = "CREATE"
       /\ change.ResourceRecordSet.Name \notin DOMAIN records

ApplyChange(records, change) ==
    Put(records, change.ResourceRecordSet.Name, change.ResourceRecordSet)

\* the mutant undoes the deployment when the DNS change fails
CreateDnsRecordCompensating ==
    /\ pc = "RegisterDns"
    /\ trace' = Append(trace, "RegisterDns")
    /\ LET change == DnsChange(customer_url)
       IN  /\ dnsLog' = Append(dnsLog, change)
           /\ \/ /\ SysExit("RegisterDns")
                 /\ env_version' = current_version
                 /\ databases' = databases \ {customer}
                 /\ UNCHANGED dns_records
              \/ /\ ChangeAccepted(dns_records, change)
                 /\ dns_records' = ApplyChange(dns_records, change)
                 /\ pc' = Successor("RegisterDns")
                 /\ UNCHANGED <<failedAt, env_version, databases>>
    /\ UNCHANGED <<bucket_objs, app_versions, live_version,
                   grants, clock, scratch, step, runs, locals,
                   listed, current_version, pubSteps>>

CreateDnsRecord ==
    /\ pc = "RegisterDns"
    /\ trace' = Append(trace, "RegisterDns")
    /\ LET change == DnsChange(customer_url)
       IN  /\ dnsLog' = Append(dnsLog, change)
           /\ \/ \* change_resource_record_sets raises: Route 53 refuses the
                 \* change, or fails
                 /\ SysExit("RegisterDns")
                 /\ UNCHANGED dns_records
              \/ /\ ChangeAccepted(dns_records, change)
                 /\ dns_records' = ApplyChange(dns_records, change)
                 /\ pc' = Successor("RegisterDns")
                 /\ UNCHANGED failedAt
    /\ UNCHANGED <<bucket_objs, app_versions, env_version, live_version,
                   databases, grants, clock, scratch, step, runs, locals,
                   listed, current_version, pubSteps>>

(***************************************************************************)
(* main(): the output, lines 313-325                                       *)
(***************************************************************************)
\* the mutant reports the version found running, not the one deployed
OutputOfCurrent(c, url, version) ==
    [ CustomerName |-> c,
      DeploymentVersion |-> current_version,
      Status |-> "deployed",
      RdsHostname |-> rds_hostname,
      RdsDbName |-> c,
      RdsPort |-> rds_port,
      Domain |-> url,
      EnvId |-> env_id,
      EnvName |-> env_name ]

Output(c, url, version) ==
    [ CustomerName |-> c,
      DeploymentVersion |-> version,
      Status |-> "deployed",
      RdsHostname |-> rds_hostname,
      RdsDbName |-> c,
      RdsPort |-> rds_port,
      Domain |-> url,
      EnvId |-> env_id,
      EnvName |-> env_name ]

ReturnOutput ==
    /\ pc = "Done"
    /\ trace' = Append(trace, "Done")
    /\ output' = <<Output(customer, customer_url, new_app_version)>>
    /\ pc' = "Returned"
    /\ UNCHANGED <<external, scratch, step, runs, customer, customer_url,
                   key, extraction_path, new_app_version, app_status,
                   failedAt, listed, current_version, pubSteps, dnsLog>>

(***************************************************************************)
(* The environment: Elastic Beanstalk processes a registered version and   *)
(* rolls the environment's version out to the instances; time passes.      *)
(***************************************************************************)
ProcessVersion(label, result) ==
    /\ label \in DOMAIN app_versions
    /\ app_versions[label].status = "PROCESSING"
    /\ app_versions' = [app_versions EXCEPT ![label].status = result]
    /\ UNCHANGED <<bucket_objs, env_version, live_version, databases, grants,
                   dns_records, clock, scratch, pc, step, runs, locals,
                   history>>

Rollout ==
    /\ live_version # env_version
    /\ live_version' = env_version
    /\ UNCHANGED <<bucket_objs, app_versions, env_version, databases, grants,
                   dns_records, clock, scratch, pc, step, runs, locals,
                   history>>

Tick ==
    /\ clock < MaxClock
    /\ clock' = clock + 1
    /\ UNCHANGED <<bucket_objs, app_versions, env_version, live_version,
                   databases, grants, dns_records, scratch, pc, step, runs,
                   locals, history>>

Labels == DOMAIN app_versions

Next ==
    \/ \E c \in Customers : StartRun(c)
    \/ CheckVersion
    \/ DownloadFromS3
    \/ CreateVhost
    \/ CreateDb
    \/ DeployUpload
    \/ DeployRegister
    \/ DeployPoll
    \/ DeployActivate
    \/ CreateDnsRecord
    \/ ReturnOutput
    \/ \E l \in Labels : \E r \in {"PROCESSED", "FAILED"} : ProcessVersion(l, r)
    \/ Rollout
    \/ Tick

Spec == Init /\ [][Next]_vars

\* A started run executes: the statement it is at is eventually carried
\* out.  Whether a call to an external system returns or raises is up to
\* that system, so a round of the poll loop that returns counts as the run
\* executing; Elastic Beanstalk and the clock are under no obligation.
Run ==
    \/ CheckVersion
    \/ DownloadFromS3
    \/ CreateVhost
    \/ CreateDb
    \/ DeployUpload
    \/ DeployRegister
    \/ DeployPollReturns
    \/ DeployActivate
    \/ CreateDnsRecord
    \/ ReturnOutput

FairSpec == Spec /\ WF_vars(Run)

(***************************************************************************)
(* Properties.                                                             *)
(***************************************************************************)
StageOrder ==
    <<"LocateArtifact", "Fetch", "WriteConfig", "ProvisionDatabase",
      "Publish", "RegisterDns", "Done">>

Terminated == pc \in {"Returned", "failed"}

\* C1: the stages a run has entered are, in order, an initial part of
\* LocateArtifact, Fetch, WriteConfig, ProvisionDatabase, Publish,
\* RegisterDns, Done (none skipped, none entered twice, each after the one
\* before it returned), and a run that returns has entered them all.
C1_StagesInOrder ==
    /\ IsPrefix(trace, StageOrder)
    /\ pc = "Returned" => trace = StageOrder
    /\ pc \in Range(StageOrder) =>
          \/ trace # <<>> /\ Last(trace) = pc /\ step # ""
          \/ Len(trace) < Len(StageOrder) /\ StageOrder[Len(trace) + 1] = pc

C1_Witness == pc = "Returned" /\ trace = StageOrder

\* C2: when a run has ended, by returning or by failing in any stage,
\* neither the index file nor an extraction directory is left in /tmp.
C2_CleanupInvariant ==
    Terminated =>
        /\ ~object_list.exists
        /\ \A path \in DOMAIN tmp : tmp[path].type # "dir"

AbortingStages == {"LocateArtifact", "Fetch", "WriteConfig", "Publish"}

\* the external effects of the stages: objects of the bucket, registered
\* versions, the activated version, DNS records; and the returned output
Effects == <<bucket_objs, DOMAIN app_versions, env_version, dns_records,
             output>>

\* a step taken after a stage failed starts the next run or changes nothing
\* of the run and of its effects
AfterFailure ==
    failedAt \in AbortingStages =>
        \/ runs' = runs + 1
        \/ UNCHANGED <<Effects, trace, pc, pubSteps>>

\* C3: once a stage other than ProvisionDatabase has failed, the run is
\* over: it is in its error exit, that stage is the last one it entered, it
\* has returned no output, and until main() is invoked again no stage is
\* entered and nothing is uploaded, registered, activated or created in DNS.
\* A run in which check_version found no key gets no further than Fetch.
C3_FailureAborts ==
    /\ [](failedAt \in AbortingStages =>
            pc = "failed" /\ output = <<>> /\ Last(trace) = failedAt)
    /\ []((key = None /\ Len(trace) >= 2) =>
            pc = "failed" /\ failedAt = "Fetch")
    /\ [][AfterFailure]_vars

\* Publish failed after the bundle was uploaded and the version registered
C3_Witness ==
    /\ pc = "failed"
    /\ failedAt = "Publish"
    /\ new_app_version \in DOMAIN app_versions
    /\ env_version # new_app_version

\* C4: a failure of create_db never ends the run: no run exits in the
\* ProvisionDatabase stage, and a run that got past WriteConfig and has
\* ended has entered Publish.
C4_DatabaseFailureNeverHalts ==
    /\ failedAt # "ProvisionDatabase"
    /\ (Terminated /\ "ProvisionDatabase" \in Range(trace)) =>
          "Publish" \in Range(trace)

\* the bucket was listed in this run and none of its keys contains the
\* label of the running version
NoKeyHasLabel ==
    /\ listed # <<>>
    /\ \A i \in 1..Len(listed) : ~Contains(current_version, listed[i])

\* C5: when no key of the bucket contains the label of the running
\* version, check_version ends the run in the LocateArtifact stage: Fetch
\* is not entered.
C5_NoMatchFailsInLocate ==
    NoKeyHasLabel =>
        /\ pc = "failed"
        /\ failedAt = "LocateArtifact"
        /\ "Fetch" \notin Range(trace)

\* the matching rule of the artifact reference
IsArtifactOf(k, version) == Contains(version, k) /\ EndsWith(k, DotZip)

\* C6: the key check_version returns is a key of this run's listing that
\* contains the label and ends in ".zip", and no key listed before it does.
C6_FirstMatchInListing ==
    (key # None /\ failedAt # "LocateArtifact") =>
        \E i \in 1..Len(listed) :
            /\ listed[i] = key
            /\ IsArtifactOf(key, current_version)
            /\ \A j \in 1..(i - 1) : ~IsArtifactOf(listed[j], current_version)

PublishOrder == <<"upload", "register", "poll", "activate">>

\* update_environment is being called, or was called, in this run
Activating == step = "activate" \/ "activate" \in Range(pubSteps)

\* a step that changes the version of the environment is the activation of
\* the label that was uploaded, registered and last polled as PROCESSED
ActivationStep ==
    env_version' # env_version =>
        /\ step = "activate"
        /\ env_version' = new_app_version
        /\ app_status = "PROCESSED"
        /\ new_app_version \in DOMAIN app_versions
        /\ app_versions[new_app_version].status = "PROCESSED"
        /\ (new_app_version \o DotZip) \in DOMAIN bucket_objs

\* C7: deploy_app calls upload, register, poll, activate in that order, and
\* activates the environment with its label only when the last status the
\* poll of that label returned is PROCESSED, never PROCESSING or FAILED.
C7_ActivateAfterProcessed ==
    /\ [](IsPrefix(pubSteps, PublishOrder))
    /\ [](Activating => app_status = "PROCESSED")
    /\ [][ActivationStep]_vars

C7_Witness ==
    /\ pubSteps = PublishOrder
    /\ env_version = new_app_version
    /\ app_status = "PROCESSED"

\* C8: when the poll has returned FAILED, deploy_app eventually exits with
\* an error.
C8_FailedPollTerminates ==
    [](pc = "Publish" /\ step = "poll" /\ app_status = "FAILED"
          => <>(pc = "failed"))

\* what a returned output rests on, the database aside: the artifact was
\* located and downloaded, the customer's config is in the bundle that was
\* uploaded, the version registered with that bundle is processed and is
\* the version of the environment, the DNS record is there
StagesSucceeded ==
    /\ key # None
    /\ FilePath(key) \in DOMAIN tmp
    /\ (new_app_version \o DotZip) \in DOMAIN bucket_objs
    /\ VhostConf(customer) \in bucket_objs[new_app_version \o DotZip].confs
    /\ new_app_version \in DOMAIN app_versions
    /\ app_versions[new_app_version] =
          [status |-> "PROCESSED", key |-> new_app_version \o DotZip]
    /\ env_version = new_app_version
    /\ customer_url \in DOMAIN dns_records
    /\ dns_records[customer_url] = CnameRecord(customer_url)

\* C9 as stated: an output is returned only when every stage succeeded, the
\* database named after the customer existing on the server.
C9_OutputImpliesDatabase ==
    output # <<>> => StagesSucceeded /\ customer \in databases

\* C9 as amended: an output is returned only when every stage other than
\* ProvisionDatabase succeeded and create_db was called and returned; the
\* database itself need not exist.
C9_OutputImpliesStages ==
    output # <<>> =>
        /\ StagesSucceeded
        /\ trace = StageOrder
        /\ failedAt = ""

\* an output was returned although CREATE DATABASE failed
C9_Witness == output # <<>> /\ customer \notin databases

\* C10: the output names the customer of the request, the domain
\* customer.domain, the database customer, the status deployed, and the
\* version label this run registered and activated.
C10_OutputFields ==
    output # <<>> =>
        LET o == output[1]
        IN  /\ Len(output) = 1
            /\ o.CustomerName = customer
            /\ o.Domain = customer \o <<".">> \o domain
            /\ o.RdsDbName = customer
            /\ o.Status = "deployed"
            /\ o.DeploymentVersion \in DOMAIN app_versions
            /\ o.DeploymentVersion = env_version
            /\ VhostConf(customer) \in
                  bucket_objs[app_versions[o.DeploymentVersion].key].confs

C10_Witness ==
    /\ output # <<>>
    /\ output[1].CustomerName = <<"b">>
    /\ output[1].Domain = <<"b", ".", "e", ".", "c">>
    /\ runs = 2

\* a valid customer id: letters, digits and underscores, at least one
IdChars == (Range(AsciiOrder) \ {"-", "."}) \cup {"_"}

ValidCustomer(c) == c # <<>> /\ \A i \in 1..Len(c) : c[i] \in IdChars

\* what a run leaves outside itself: the scratch directory, the bucket, the
\* versions and the environment, the databases and grants, the DNS zone
SideEffects == <<object_list, tmp, bucket_objs, DOMAIN app_versions,
                 env_version, databases, grants, dns_records>>

\* a step of a run whose customer is not valid has no side effect
InvalidCustomerStep ==
    (customer # None /\ ~ValidCustomer(customer)) => UNCHANGED SideEffects

\* C11: a request whose customer id is not valid is rejected before any
\* side effect: no index file, download, config file, database statement,
\* upload, registration, activation or DNS change is made for it.
C11_InvalidCustomerRejected == [][InvalidCustomerStep]_vars

\* a step removes or changes nothing a stage has put in place: objects of
\* the bucket stay, registered versions keep their bundle key, databases,
\* grants and DNS records stay as they are, and the version of the
\* environment changes only to the label the run has just registered
NoCompensationStep ==
    /\ DOMAIN bucket_objs \subseteq DOMAIN bucket_objs'
    /\ \A l \in DOMAIN app_versions :
          /\ l \in DOMAIN app_versions'
          /\ app_versions'[l].key = app_versions[l].key
    /\ databases \subseteq databases'
    /\ grants \subseteq grants'
    /\ \A n \in DOMAIN dns_records :
          n \in DOMAIN dns_records' /\ dns_records'[n] = dns_records[n]
    /\ env_version' # env_version =>
          step = "activate" /\ env_version' = new_app_version

\* C12: no step of the pipeline deletes or reverts a database, an uploaded
\* bundle, a registered or activated version or a DNS record, so what the
\* stages before a failure did stays; after a failure of RegisterDns the
\* new version is still registered, uploaded and activated.
C12_NoCompensation ==
    /\ [][NoCompensationStep]_vars
    /\ [](failedAt = "RegisterDns" =>
            /\ env_version = new_app_version
            /\ new_app_version \in DOMAIN app_versions
            /\ (new_app_version \o DotZip) \in DOMAIN bucket_objs)

\* RegisterDns failed in a run that had created the database
C12_Witness ==
    /\ pc = "failed"
    /\ failedAt = "RegisterDns"
    /\ customer \in databases
    /\ env_version = new_app_version

\* deploy_app is about to generate a label that an earlier run registered
LabelTaken ==
    pc = "Publish" /\ step = "" /\ NewAppVersion(Now) \in DOMAIN app_versions

\* deploy_app has uploaded under a label that an earlier run registered and
\* is about to register it
RegisteringTaken ==
    pc = "Publish" /\ step = "register"
    /\ new_app_version \in DOMAIN app_versions

\* the run with the taken label registers and activates nothing: its
\* registration ends the run in Publish, and the version registered under
\* the label keeps its bundle key
TakenLabelStep ==
    /\ LabelTaken => env_version' = env_version
    /\ RegisteringTaken =>
          /\ env_version' = env_version
          /\ DOMAIN app_versions' = DOMAIN app_versions
          /\ app_versions'[new_app_version].key =
                app_versions[new_app_version].key
          /\ \/ pc' = "Publish" /\ step' = "register" /\ trace' = trace
             \/ pc' = "failed" /\ failedAt' = "Publish"
                /\ app_versions' = app_versions

\* the bundle of the version registered under the taken label is not
\* touched
TakenBundleKept ==
    LabelTaken =>
        LET k == app_versions[NewAppVersion(Now)].key
        IN  k \in DOMAIN bucket_objs => bucket_objs'[k] = bucket_objs[k]

\* C13 as stated: a run that generates the label of a registered version
\* fails in its registration, aborts in Publish, activates nothing, and
\* leaves that version, its bundle included, as it was.
C13_TakenLabelLeavesVersion ==
    [][TakenLabelStep /\ TakenBundleKept]_vars

\* C13 as amended: the same, for the label, bundle key and status of the
\* registered version only; the object under its bundle key is replaced by
\* the second run's upload.
C13_TakenLabelFails == [][TakenLabelStep]_vars

\* the second run failed to register the label of the first, whose bundle
\* now holds the second customer's config
C13_Witness ==
    /\ runs = 2
    /\ pc = "failed"
    /\ failedAt = "Publish"
    /\ pubSteps = <<"upload", "register">>
    /\ new_app_version \in DOMAIN app_versions
    /\ customer = <<"b">>
    /\ bucket_objs[app_versions[new_app_version].key].confs
          = {VhostConf(<<"b">>)}

\* a create_dns_record step for a name the zone already holds: the run
\* fails and the zone is left as it was
ExistingRecordStep ==
    (pc = "RegisterDns" /\ customer_url \in DOMAIN dns_records /\ pc' # pc)
        => /\ pc' = "failed"
           /\ failedAt' = "RegisterDns"
           /\ dns_records' = dns_records
           /\ output' = <<>>

\* C14: a run that reaches RegisterDns submits exactly one change, a CREATE
\* of a CNAME from '<customer>.<domain>' to eb_url with TTL 300, and a run
\* that has not reached it submits none; when the name already has a
\* record the run fails, the record is unchanged and no result is returned.
C14_OneCnameCreate ==
    /\ [](IF "RegisterDns" \in Range(trace)
            THEN dnsLog = << [Action |-> "CREATE",
                              ResourceRecordSet |->
                                  [Name  |-> customer \o <<".">> \o domain,
                                   Type  |-> "CNAME",
                                   TTL   |-> 300,
                                   Value |-> eb_url]] >>
            ELSE dnsLog = <<>>)
    /\ [](failedAt = "RegisterDns" => output = <<>>)
    /\ [][ExistingRecordStep]_vars

\* a run failed in RegisterDns on a name that another run had created
C14_Witness ==
    /\ failedAt = "RegisterDns"
    /\ Len(dnsLog) = 1
    /\ customer_url \in DOMAIN dns_records
    /\ dns_records[customer_url].Value = eb_url
    /\ runs = 2

\* the number of virtual-host blocks opened in a config text
BlockCount(text) ==
    Cardinality({i \in 1..Len(text) : text[i] = VhostOpen})

\* the text from position i up to the end of its line
RECURSIVE RestOfLine(_, _)
RestOfLine(text, i) ==
    IF i > Len(text) \/ text[i] = "\n" THEN <<>>
    ELSE <<text[i]>> \o RestOfLine(text, i + 1)

\* the values a config text gives to a directive
DirectiveValues(text, directive) ==
    {RestOfLine(text, i + 1) : i \in {j \in 1..Len(text) : text[j] = directive}}

\* the config files named <customer>.conf in the working tree
WrittenConfs ==
    IF extraction_path \in DOMAIN tmp /\ tmp[extraction_path].type = "dir"
    THEN {f \in tmp[extraction_path].body.confs :
             f.file = customer \o <<".", "c", "o", "n", "f">>}
    ELSE {}

\* a create_vhost step on a tree without the vhosts directory fails
NoVhostsDirStep ==
    (pc = "WriteConfig" /\ ~tmp[extraction_path].body.vhosts /\ pc' # pc)
        => /\ pc' = "failed"
           /\ failedAt' = "WriteConfig"
           /\ tmp' = tmp

\* C15: the file create_vhost writes into the working tree holds exactly
\* one virtual-host block, with ServerName <customer>.<domain>, ServerAlias
\* www.<customer>.<domain> and RDS_DB_NAME <customer>; the write fails and
\* aborts the run when the tree has no vhosts directory.
C15_OneVhostBlock ==
    /\ []( ("WriteConfig" \in Range(trace) /\ failedAt # "WriteConfig"
            /\ extraction_path \in DOMAIN tmp)
           => /\ Cardinality(WrittenConfs) = 1
              /\ \A f \in WrittenConfs :
                    /\ BlockCount(f.text) = 1
                    /\ DirectiveValues(f.text, "ServerName ")
                          = {customer \o <<".">> \o domain}
                    /\ DirectiveValues(f.text, "ServerAlias ")
                          = {<<"w", "w", "w", ".">> \o customer
                                \o <<".">> \o domain}
                    /\ DirectiveValues(f.text, "SetEnv RDS_DB_NAME ")
                          = {Quoted(customer)} )
    /\ [][NoVhostsDirStep]_vars

\* the extraction directory of the located key is in the scratch root
StaleDirectory ==
    /\ pc = "Fetch"
    /\ ExtractionPath(key) \in DOMAIN tmp
    /\ tmp[ExtractionPath(key)].type = "dir"

\* a download_from_s3 step on an existing extraction directory
StaleDirectoryStep ==
    (StaleDirectory /\ pc' # pc)
        => /\ pc' = "failed"
           /\ failedAt' = "Fetch"
           /\ tmp'[ExtractionPath(key)] = tmp[ExtractionPath(key)]

\* C16: when the extraction directory of the located key already exists,
\* download_from_s3 fails and the run aborts; the directory keeps its
\* contents and nothing is extracted into it.
C16_NoMergeIntoExisting == [][StaleDirectoryStep]_vars

\* a second run failed in Fetch on the directory an earlier run left
\* behind with that run's config in it
C16_Witness ==
    /\ runs = 2
    /\ failedAt = "Fetch"
    /\ ExtractionPath(key) \in DOMAIN tmp
    /\ tmp[ExtractionPath(key)].type = "dir"
    /\ tmp[ExtractionPath(key)].body.confs # {}
    /\ FilePath(key) \in DOMAIN tmp

\* the run is in the poll loop of deploy_app
Polling == pc = "Publish" /\ step = "poll"

\* Elastic Beanstalk reports the version this run registered as PROCESSED
Processed ==
    /\ new_app_version \in DOMAIN app_versions
    /\ app_versions[new_app_version].status = "PROCESSED"

\* the run has got past the poll loop
PastPoll ==
    \/ Activating
    \/ pc \in {"RegisterDns", "Done", "Returned"}
    \/ "RegisterDns" \in Range(trace)

\* C17: the calls of a run returning, a run whose registered version
\* becomes PROCESSED terminates (returned or failed); the only place a run
\* can stay in for ever is the poll loop on a version that is not PROCESSED;
\* and a run gets to the activation, to RegisterDns or to Done only with
\* its version PROCESSED.
C17_PollOnlyUnboundedWait ==
    /\ (Polling /\ Processed) ~> Terminated
    /\ (pc \in Range(StageOrder)) ~> (Terminated \/ (Polling /\ ~Processed))
    /\ [](PastPoll => Processed)

\* the poll returned PROCESSING at least once and the version has become
\* PROCESSED since
C17_Witness ==
    /\ Polling
    /\ "poll" \in Range(pubSteps)
    /\ app_status = "PROCESSING"
    /\ Processed

\* the key check_version returns for this run's listing when the index
\* file is absent at the start of the run
KeyFromEmptyScratch == FirstMatch(IndexLines(listed), current_version)

\* download_from_s3(k) can return when the scratch root holds t
FetchCanSucceed(t, k) ==
    /\ k \in DOMAIN bucket_objs
    /\ FilePath(k) \in DOMAIN t => t[FilePath(k)].type = "file"
    /\ ~MakedirsRaises(Put(t, FilePath(k), File(bucket_objs[k])),
                       ExtractionPath(k))
    /\ bucket_objs[k].zip

\* C18: what earlier runs left in /tmp does not change a run: the key it
\* locates is the key it would locate with no index file, a key of this
\* run's listing, and its Fetch can succeed exactly when it could with
\* nothing in /tmp.
C18_ScratchIndependent ==
    /\ ("LocateArtifact" \in Range(trace) /\ failedAt # "LocateArtifact")
          => /\ key = KeyFromEmptyScratch
             /\ key # None => key \in Range(listed)
    /\ pc = "Fetch"
          => (FetchCanSucceed(tmp, key) <=> FetchCanSucceed(EmptyFcn, key))

\* the customers a run has provisioned to the end: create_dns_record, the
\* last call of main, has created their record
Provisioned == {c \in Customers : (c \o <<".">> \o domain) \in DOMAIN dns_records}

\* the bundle of the version the instances run
LiveBundle == bucket_objs[app_versions[live_version].key]

\* C19: when a run has returned and the version it activated is the one
\* the instances run, the bundle of that version holds the config file of
\* every customer provisioned so far.
C19_NoTenantLost ==
    (pc = "Returned" /\ env_version = new_app_version
        /\ live_version = env_version)
    => \A c \in Provisioned : VhostConf(c) \in LiveBundle.confs

\* the registered versions whose bundle a step replaces
Overwritten ==
    {l \in DOMAIN app_versions :
        /\ app_versions[l].key \in DOMAIN bucket_objs
        /\ bucket_objs'[app_versions[l].key] # bucket_objs[app_versions[l].key]}

\* C20 as stated: once a label is registered, the object under its bundle
\* key is never overwritten, not even by a run that generates the same
\* label.
C20_BundleImmutable == [][Overwritten = {}]_vars

\* a step replaces the bundle of a registered version only as the upload of
\* a run that generates that version's label
OverwriteStep ==
    \A l \in Overwritten :
        /\ pc = "Publish" /\ step = ""
        /\ l = NewAppVersion(Now)
        /\ new_app_version' = l
        /\ bucket_objs' = Put(bucket_objs, BundleKey(l),
                              Archive(tmp[extraction_path]))

\* C20 as amended: the object under a registered label's bundle key is
\* overwritten only by the upload of a run that generates the same label,
\* that is a run for the same domain publishing in the same second; no
\* other run and no other step replaces it.
C20_OverwrittenOnlyBySameLabel == [][OverwriteStep]_vars

\* the version the environment runs was registered and processed with the
\* first customer's bundle, and a second run has replaced that bundle
C20_Witness ==
    /\ runs = 2
    /\ pc = "Publish"
    /\ step = "register"
    /\ env_version = new_app_version
    /\ app_versions[new_app_version].status = "PROCESSED"
    /\ bucket_objs[app_versions[new_app_version].key].confs
          = {VhostConf(customer)}
    /\ customer = <<"a">>

=============================================================================
